---- MODULE Spec2Model ----
(***************************************************************************)
(* StableHashMap (src/src/lib.rs): a Vec of keys in insertion order and a  *)
(* HashMap from slot number to value.  The module models the two fields,   *)
(* every public operation on them, the consuming iterator and the bulk     *)
(* constructors, and states the properties of the container over them.     *)
(***************************************************************************)
EXTENDS Integers, Sequences, FiniteSets, TLC

\* ------------------------------------------------------------------------
\* Bounds of the model
\* ------------------------------------------------------------------------
\* longest key_vec a push may produce
MaxLen == 3
\* longest list of pairs handed to a From constructor
MaxFromLen == 2
\* calls of next allowed beyond the longest container
MaxExtraNext == 2
\* width of usize in the model (the targets have 32 or 64 bits)
UsizeBits == 4
UsizeMod == 2 ^ UsizeBits

\* the key type K and the value type V, as small sets
Keys == {"a", "b"}
Vals == {1, 2}

\* slot numbers a caller passes to get / get_mut (some are out of range)
Slots == 0..(MaxLen + 1)
\* capacity hints a caller passes to with_capacity
Capacities == 0..1

\* ------------------------------------------------------------------------
\* Option<T>
\* ------------------------------------------------------------------------
None == <<>>
Some(x) == <<x>>
IsSome(o) == Len(o) = 1
Unwrap(o) == o[1]

\* ------------------------------------------------------------------------
\* The std collections as the code uses them.  A Vec is a sequence whose
\* slot i is element i + 1; a HashMap is a function on its set of keys.
\* ------------------------------------------------------------------------
VecNew == <<>>
VecLen(vec) == Len(vec)
VecPush(vec, x) == Append(vec, x)
VecGet(vec, idx) == IF idx < Len(vec) THEN Some(vec[idx + 1]) ELSE None
VecPop(vec) ==
  IF Len(vec) = 0
    THEN [vec |-> vec, ret |-> None]
    ELSE [vec |-> SubSeq(vec, 1, Len(vec) - 1), ret |-> Some(vec[Len(vec)])]

RECURSIVE PositionFrom(_, _, _)
PositionFrom(vec, key, i) ==
  IF i >= Len(vec) THEN None
  ELSE IF vec[i + 1] = key THEN Some(i)
  ELSE PositionFrom(vec, key, i + 1)
\* key_vec.iter().position(|k| k == key)
Position(vec, key) == PositionFrom(vec, key, 0)

HashMapNew == [x \in {} |-> 0]
HashMapInsert(h, k, v) == [x \in (DOMAIN h) \cup {k} |-> IF x = k THEN v ELSE h[x]]
HashMapGet(h, k) == IF k \in DOMAIN h THEN Some(h[k]) ELSE None
HashMapRemove(h, k) ==
  IF k \in DOMAIN h
    THEN [map |-> [x \in (DOMAIN h) \ {k} |-> h[x]], ret |-> Some(h[k])]
    ELSE [map |-> h, ret |-> None]
HashMapLen(h) == Cardinality(DOMAIN h)

\* ------------------------------------------------------------------------
\* StableHashMap: the struct and its methods, as functions of the struct
\* ------------------------------------------------------------------------
StableHashMap(h, kv) == [hashmap |-> h, key_vec |-> kv]

new == StableHashMap(HashMapNew, VecNew)
with_capacity(size) == StableHashMap(HashMapNew, VecNew)
with_hasher == StableHashMap(HashMapNew, VecNew)
with_capacity_and_hasher(capacity) == StableHashMap(HashMapNew, VecNew)
default == new

\* bug: the key is pushed before the slot number is read
push_after_len(self, key, value) ==
  LET kv == VecPush(self.key_vec, key)
  IN  StableHashMap(HashMapInsert(self.hashmap, VecLen(kv), value), kv)

\* bug: the value is stored under the slot of the key's first occurrence
push_by_key(self, key, value) ==
  LET p == Position(self.key_vec, key)
      slot == IF IsSome(p) THEN Unwrap(p) ELSE VecLen(self.key_vec)
  IN  StableHashMap(HashMapInsert(self.hashmap, slot, value),
                    VecPush(self.key_vec, key))

push(self, key, value) ==
  LET h == HashMapInsert(self.hashmap, VecLen(self.key_vec), value)
  IN  StableHashMap(h, VecPush(self.key_vec, key))

\* bug: the value is read with get and stays in the hashmap
pop_no_remove(self) ==
  LET p == VecPop(self.key_vec)
  IN  IF IsSome(p.ret)
        THEN LET v == HashMapGet(self.hashmap, VecLen(p.vec))
             IN  [self |-> StableHashMap(self.hashmap, p.vec),
                  ret  |-> IF IsSome(v)
                             THEN Some(<<Unwrap(p.ret), Unwrap(v)>>)
                             ELSE None]
        ELSE [self |-> StableHashMap(self.hashmap, p.vec), ret |-> None]

\* bug: the slot number is the length before the key is popped
pop_len_before(self) ==
  LET p == VecPop(self.key_vec)
  IN  IF IsSome(p.ret)
        THEN LET r == HashMapRemove(self.hashmap, VecLen(self.key_vec))
             IN  [self |-> StableHashMap(r.map, p.vec),
                  ret  |-> IF IsSome(r.ret)
                             THEN Some(<<Unwrap(p.ret), Unwrap(r.ret)>>)
                             ELSE None]
        ELSE [self |-> StableHashMap(self.hashmap, p.vec), ret |-> None]

\* bug: the value is removed at the slot of the key's first occurrence
pop_by_key(self) ==
  LET p == VecPop(self.key_vec)
  IN  IF IsSome(p.ret)
        THEN LET f == Position(self.key_vec, Unwrap(p.ret))
                 r == HashMapRemove(self.hashmap, Unwrap(f))
             IN  [self |-> StableHashMap(r.map, p.vec),
                  ret  |-> IF IsSome(r.ret)
                             THEN Some(<<Unwrap(p.ret), Unwrap(r.ret)>>)
                             ELSE None]
        ELSE [self |-> StableHashMap(self.hashmap, p.vec), ret |-> None]

pop(self) ==
  LET p == VecPop(self.key_vec)
  IN  IF IsSome(p.ret)
        THEN LET r == HashMapRemove(self.hashmap, VecLen(p.vec))
             IN  [self |-> StableHashMap(r.map, p.vec),
                  ret  |-> IF IsSome(r.ret)
                             THEN Some(<<Unwrap(p.ret), Unwrap(r.ret)>>)
                             ELSE None]
        ELSE [self |-> StableHashMap(self.hashmap, p.vec), ret |-> None]

\* bug: the value is looked up at the slot of the key's first occurrence
get_first_match(self, idx) ==
  LET k == VecGet(self.key_vec, idx)
  IN  IF IsSome(k)
        THEN LET v == HashMapGet(self.hashmap,
                                 Unwrap(Position(self.key_vec, Unwrap(k))))
             IN  IF IsSome(v) THEN Some(<<Unwrap(k), Unwrap(v)>>) ELSE None
        ELSE None

get(self, idx) ==
  LET k == VecGet(self.key_vec, idx)
  IN  IF IsSome(k)
        THEN LET v == HashMapGet(self.hashmap, idx)
             IN  IF IsSome(v) THEN Some(<<Unwrap(k), Unwrap(v)>>) ELSE None
        ELSE None

\* bug: the key reference is the one of the key's first occurrence
get_mut_key_first(self, idx) ==
  IF IsSome(VecGet(self.key_vec, idx)) /\ IsSome(HashMapGet(self.hashmap, idx))
    THEN Some([key_slot |-> Unwrap(Position(self.key_vec, self.key_vec[idx + 1])),
               value_slot |-> idx])
    ELSE None

\* bug: the value reference is the one of the key's first occurrence
get_mut_first_match(self, idx) ==
  IF IsSome(VecGet(self.key_vec, idx)) /\ IsSome(HashMapGet(self.hashmap, idx))
    THEN Some([key_slot |-> idx,
               value_slot |-> Unwrap(Position(self.key_vec, self.key_vec[idx + 1]))])
    ELSE None

\* get_mut returns two references: the one to key_vec[idx] and the one to
\* the value stored under idx.  A handle names the places they refer to.
get_mut(self, idx) ==
  IF IsSome(VecGet(self.key_vec, idx)) /\ IsSome(HashMapGet(self.hashmap, idx))
    THEN Some([key_slot |-> idx, value_slot |-> idx])
    ELSE None

\* the caller assigns k and v through the two references of a handle
WriteKeyValue(self, handle, k, v) ==
  StableHashMap([self.hashmap EXCEPT ![handle.value_slot] = v],
                [self.key_vec EXCEPT ![handle.key_slot + 1] = k])

\* the last slot holding key: key_vec.iter().rposition(|k| k == key)
RECURSIVE RPositionFrom(_, _, _)
RPositionFrom(vec, key, i) ==
  IF i = 0 THEN None
  ELSE IF vec[i] = key THEN Some(i - 1)
  ELSE RPositionFrom(vec, key, i - 1)

\* bug: the last occurrence of the key wins
get_by_key_last(self, key) ==
  LET p == RPositionFrom(self.key_vec, key, Len(self.key_vec))
  IN  IF IsSome(p) THEN HashMapGet(self.hashmap, Unwrap(p)) ELSE None

\* bug: a key held by no slot falls back to slot 0
get_by_key_or_zero(self, key) ==
  LET p == Position(self.key_vec, key)
  IN  HashMapGet(self.hashmap, IF IsSome(p) THEN Unwrap(p) ELSE 0)

get_by_key(self, key) ==
  LET p == Position(self.key_vec, key)
  IN  IF IsSome(p) THEN HashMapGet(self.hashmap, Unwrap(p)) ELSE None

\* bug: the reference is to the value of the key's last occurrence
get_mut_by_key_last(self, key) ==
  LET p == RPositionFrom(self.key_vec, key, Len(self.key_vec))
  IN  IF IsSome(p) /\ IsSome(HashMapGet(self.hashmap, Unwrap(p)))
        THEN Some([value_slot |-> Unwrap(p)])
        ELSE None

\* get_mut_by_key returns one reference, to the value stored under the slot
get_mut_by_key(self, key) ==
  LET p == Position(self.key_vec, key)
  IN  IF IsSome(p) /\ IsSome(HashMapGet(self.hashmap, Unwrap(p)))
        THEN Some([value_slot |-> Unwrap(p)])
        ELSE None

\* the caller assigns v through the reference
WriteValue(self, handle, v) ==
  StableHashMap([self.hashmap EXCEPT ![handle.value_slot] = v], self.key_vec)

\* tuples.iter().map(|(k, _)| k.clone()).collect::<Vec<_>>()
RECURSIVE CollectKeys(_, _)
CollectKeys(tuples, acc) ==
  IF tuples = <<>> THEN acc
  ELSE CollectKeys(Tail(tuples), VecPush(acc, Head(tuples)[1]))

\* tuples.iter().enumerate().map(|(idx, (_, v))| (idx, v)).collect::<HashMap<_, _>>()
RECURSIVE CollectValues(_, _, _)
CollectValues(tuples, idx, acc) ==
  IF tuples = <<>> THEN acc
  ELSE CollectValues(Tail(tuples), idx + 1, HashMapInsert(acc, idx, Head(tuples)[2]))

\* bug: the slot numbers are counted from 1
from_slice_from_one(tuples) ==
  StableHashMap(CollectValues(tuples, 1, HashMapNew), CollectKeys(tuples, VecNew))

from_slice(tuples) ==
  StableHashMap(CollectValues(tuples, 0, HashMapNew), CollectKeys(tuples, VecNew))

from_vec(tuples) ==
  StableHashMap(CollectValues(tuples, 0, HashMapNew), CollectKeys(tuples, VecNew))

\* StableHashMapIntoIterator
\* bug: the iterator starts at slot 1
into_iter_from_one(self) == [stable_map |-> self, index |-> 1]

into_iter(self) == [stable_map |-> self, index |-> 0]

\* bug: index is incremented before the lookup
next_preincrement(it) ==
  LET k == VecGet(it.stable_map.key_vec, it.index + 1)
      v == HashMapGet(it.stable_map.hashmap, it.index + 1)
  IN  [it  |-> [stable_map |-> it.stable_map, index |-> it.index + 1],
       ret |-> IF IsSome(k) /\ IsSome(v)
                 THEN Some(<<Unwrap(k), Unwrap(v)>>)
                 ELSE None]

\* self.index += 1 overflows usize: with overflow checks (debug builds) the
\* call panics, without them (release builds) index wraps to 0
next_overflows(it) == it.index + 1 >= UsizeMod

\* next as it returns: the sum is the wrapping one
next(it) ==
  LET k == VecGet(it.stable_map.key_vec, it.index)
      v == HashMapGet(it.stable_map.hashmap, it.index)
  IN  [it  |-> [stable_map |-> it.stable_map,
                index |-> (it.index + 1) % UsizeMod],
       ret |-> IF IsSome(k) /\ IsSome(v)
                 THEN Some(<<Unwrap(k), Unwrap(v)>>)
                 ELSE None]

\* ------------------------------------------------------------------------
\* State
\* ------------------------------------------------------------------------
VARIABLES
  hashmap,   \* StableHashMap.hashmap: slot number -> value
  key_vec,   \* StableHashMap.key_vec: the keys in insertion order
  index,     \* StableHashMapIntoIterator.index
  phase,     \* "live": the caller owns the map; "iter": into_iter moved it
             \* into an iterator (stable_map is then hashmap and key_vec);
             \* "panicked": a call of next panicked
  op,        \* the operation that ran last
  arg,       \* its arguments
  ret,       \* its result
  pre,       \* the struct as it was before that operation
  prev_op,   \* the operation that ran before it on the same value
  entries,   \* history: the pairs put in and not yet taken out, in order
  hist,      \* history: "push" while the value has seen new and pushes only,
             \* "pop" while it has seen pushes and then pops only
  pushlog,   \* history: the pairs pushed while hist is "push"
  poplog,    \* history: the results of the pops while hist is "pop"
  yielded    \* history: the pairs next has returned since into_iter

vars == <<hashmap, key_vec, index, phase, op, arg, ret, pre, prev_op,
          entries, hist, pushlog, poplog, yielded>>

Self == StableHashMap(hashmap, key_vec)
Unit == <<>>
Pairs == Keys \X Vals
\* the lists of pairs a From constructor is given
Tuples == UNION {[1..n -> Pairs] : n \in 0..MaxFromLen}

\* the values a handle of get_mut refers to
Deref(self, handle) ==
  <<self.key_vec[handle.key_slot + 1], self.hashmap[handle.value_slot]>>

\* The history variable entries is kept on the caller's side: it lists the
\* pairs the caller handed in (push, From) with the caller's writes through
\* handles applied and the popped ones taken off, and never reads hashmap
\* or key_vec.  Slot i is element i + 1.
AbsSlots(es, k) == {i \in 0..(Len(es) - 1) : es[i + 1][1] = k}
AbsFirst(es, k) == CHOOSE i \in AbsSlots(es, k) : \A j \in AbsSlots(es, k) : i <= j
AbsWrite(es, i, k, v) == IF i < Len(es) THEN [es EXCEPT ![i + 1] = <<k, v>>] ELSE es
AbsWriteByKey(es, k, v) ==
  IF AbsSlots(es, k) = {} THEN es ELSE [es EXCEPT ![AbsFirst(es, k) + 1] = <<k, v>>]
AbsPop(es) == IF es = <<>> THEN es ELSE SubSeq(es, 1, Len(es) - 1)

\* a constructor returns a value with no past
Construct(o, a, self, es, h) ==
  /\ hashmap' = self.hashmap
  /\ key_vec' = self.key_vec
  /\ index' = 0
  /\ phase' = "live"
  /\ op' = o
  /\ arg' = a
  /\ ret' = Unit
  /\ pre' = self
  /\ prev_op' = "none"
  /\ entries' = es
  /\ hist' = h
  /\ pushlog' = <<>>
  /\ poplog' = <<>>
  /\ yielded' = <<>>

\* a method of a live map ran: what it was, on what, with what result
Ran(o, a, self, r) ==
  /\ phase = "live"
  /\ hashmap' = self.hashmap
  /\ key_vec' = self.key_vec
  /\ op' = o
  /\ arg' = a
  /\ ret' = r
  /\ pre' = Self
  /\ prev_op' = op
  /\ UNCHANGED <<index, phase, yielded>>

NoHist == hist' = "other" /\ pushlog' = <<>> /\ poplog' = <<>>

Init ==
  /\ hashmap = new.hashmap
  /\ key_vec = new.key_vec
  /\ index = 0
  /\ phase = "live"
  /\ op = "new"
  /\ arg = Unit
  /\ ret = Unit
  /\ pre = new
  /\ prev_op = "none"
  /\ entries = <<>>
  /\ hist = "push"
  /\ pushlog = <<>>
  /\ poplog = <<>>
  /\ yielded = <<>>

\* ------------------------------------------------------------------------
\* Operations
\* ------------------------------------------------------------------------
New == Construct("new", Unit, new, <<>>, "push")

WithCapacity == \E size \in Capacities :
  Construct("with_capacity", size, with_capacity(size), <<>>, "push")

WithHasher == Construct("with_hasher", Unit, with_hasher, <<>>, "push")

WithCapacityAndHasher == \E capacity \in Capacities :
  Construct("with_capacity_and_hasher", capacity,
            with_capacity_and_hasher(capacity), <<>>, "push")

Default == Construct("default", Unit, default, <<>>, "push")

FromSlice == \E tuples \in Tuples :
  Construct("from_slice", tuples, from_slice(tuples), tuples, "other")

FromVec == \E tuples \in Tuples :
  Construct("from_vec", tuples, from_vec(tuples), tuples, "other")

Push == \E key \in Keys, value \in Vals :
  /\ VecLen(key_vec) < MaxLen
  /\ Ran("push", <<key, value>>, push(Self, key, value), Unit)
  /\ entries' = Append(entries, <<key, value>>)
  /\ IF hist = "push"
       THEN /\ hist' = "push"
            /\ pushlog' = Append(pushlog, <<key, value>>)
            /\ poplog' = poplog
       ELSE NoHist

Pop ==
  LET r == pop(Self)
  IN  /\ Ran("pop", Unit, r.self, r.ret)
      /\ entries' = AbsPop(entries)
      /\ IF hist \in {"push", "pop"} /\ Len(poplog) < Len(pushlog)
           THEN /\ hist' = "pop"
                /\ pushlog' = pushlog
                /\ poplog' = Append(poplog, r.ret)
           ELSE NoHist

Get == \E idx \in Slots :
  /\ Ran("get", idx, Self, get(Self, idx))
  /\ entries' = entries
  /\ NoHist

GetMut == \E idx \in Slots, key \in Keys, value \in Vals :
  LET h == get_mut(Self, idx)
  IN  /\ IF IsSome(h)
           THEN Ran("get_mut", <<idx, key, value>>,
                    WriteKeyValue(Self, Unwrap(h), key, value),
                    Some(Deref(Self, Unwrap(h))))
           ELSE Ran("get_mut", <<idx, key, value>>, Self, None)
      /\ entries' = AbsWrite(entries, idx, key, value)
      /\ NoHist

GetByKey == \E key \in Keys :
  /\ Ran("get_by_key", key, Self, get_by_key(Self, key))
  /\ entries' = entries
  /\ NoHist

GetMutByKey == \E key \in Keys, value \in Vals :
  LET h == get_mut_by_key(Self, key)
  IN  /\ IF IsSome(h)
           THEN Ran("get_mut_by_key", <<key, value>>,
                    WriteValue(Self, Unwrap(h), value),
                    Some(hashmap[Unwrap(h).value_slot]))
           ELSE Ran("get_mut_by_key", <<key, value>>, Self, None)
      /\ entries' = AbsWriteByKey(entries, key, value)
      /\ NoHist

IntoIter ==
  LET it == into_iter(Self)
  IN  /\ phase = "live"
      /\ phase' = "iter"
      /\ hashmap' = it.stable_map.hashmap
      /\ key_vec' = it.stable_map.key_vec
      /\ index' = it.index
      /\ op' = "into_iter"
      /\ arg' = Unit
      /\ ret' = Unit
      /\ pre' = Self
      /\ prev_op' = op
      /\ yielded' = <<>>
      /\ UNCHANGED <<entries, hist, pushlog, poplog>>

\* a call of next that returns
NextReturns ==
  LET r == next([stable_map |-> Self, index |-> index])
  IN  /\ phase = "iter"
      /\ hashmap' = r.it.stable_map.hashmap
      /\ key_vec' = r.it.stable_map.key_vec
      /\ index' = r.it.index
      /\ op' = "next"
      /\ arg' = Unit
      /\ ret' = r.ret
      /\ pre' = Self
      /\ prev_op' = op
      /\ yielded' = IF IsSome(r.ret) THEN Append(yielded, Unwrap(r.ret)) ELSE yielded
      /\ UNCHANGED <<phase, entries, hist, pushlog, poplog>>

\* one of the first MaxLen + MaxExtraNext calls of next
Next_ ==
  /\ index < MaxLen + MaxExtraNext
  /\ NextReturns

\* a later call of next, index + 1 still within usize
NextFar_ ==
  /\ index >= MaxLen + MaxExtraNext
  /\ ~next_overflows([stable_map |-> Self, index |-> index])
  /\ NextReturns

\* the call of next at index = usize::MAX, built without overflow checks:
\* it returns and index wraps.  (The model follows the first wrap on a
\* non-empty map only: the guard on yielded stops it after the re-yield.)
NextWrapped_ ==
  /\ next_overflows([stable_map |-> Self, index |-> index])
  /\ Len(yielded) <= VecLen(key_vec)
  /\ NextReturns

\* the same call built with overflow checks: index += 1 panics
NextPanicked_ ==
  /\ phase = "iter"
  /\ next_overflows([stable_map |-> Self, index |-> index])
  /\ phase' = "panicked"
  /\ op' = "next"
  /\ arg' = Unit
  /\ ret' = None
  /\ pre' = Self
  /\ prev_op' = op
  /\ UNCHANGED <<hashmap, key_vec, index, yielded, entries, hist, pushlog, poplog>>

Next ==
  \/ New
  \/ WithCapacity
  \/ WithHasher
  \/ WithCapacityAndHasher
  \/ Default
  \/ FromSlice
  \/ FromVec
  \/ Push
  \/ Pop
  \/ Get
  \/ GetMut
  \/ GetByKey
  \/ GetMutByKey
  \/ IntoIter
  \/ Next_

Spec == Init /\ [][Next]_vars

\* the same operations with next called any number of times
NextWrap ==
  \/ New
  \/ WithCapacity
  \/ WithHasher
  \/ WithCapacityAndHasher
  \/ Default
  \/ FromSlice
  \/ FromVec
  \/ Push
  \/ Pop
  \/ Get
  \/ GetMut
  \/ GetByKey
  \/ GetMutByKey
  \/ IntoIter
  \/ Next_
  \/ NextFar_
  \/ NextWrapped_
  \/ NextPanicked_

SpecWrap == Init /\ [][NextWrap]_vars

\* ------------------------------------------------------------------------
\* Properties
\* ------------------------------------------------------------------------
Constructors == {"new", "with_capacity", "with_hasher",
                 "with_capacity_and_hasher", "default", "from_slice", "from_vec"}
EmptyConstructors == Constructors \ {"from_slice", "from_vec"}

\* a is a prefix of b
IsPrefix(a, b) == Len(a) <= Len(b) /\ a = SubSeq(b, 1, Len(a))

\* the slots that get serves, and what it says of each
SameSlots(s, t) == \A i \in Slots : get(s, i) = get(t, i)
Unchanged(s, t) == VecLen(s.key_vec) = VecLen(t.key_vec) /\ SameSlots(s, t)

\* C1: after every public operation the number of keys in key_vec equals
\* the number of entries in hashmap.
C1_LengthsAgree == VecLen(key_vec) = HashMapLen(hashmap)

\* a pop that followed a push on a map of two or more, and left some behind
C1_Witness ==
  /\ op = "pop"
  /\ prev_op = "push"
  /\ IsSome(ret)
  /\ VecLen(key_vec) >= 1
  /\ VecLen(key_vec) = HashMapLen(hashmap)

\* C2: the keys of hashmap are exactly the slot numbers 0 .. key_vec.len()-1:
\* every slot has its value and no entry is left at or beyond the length.
C2_SlotsExact == DOMAIN hashmap = 0..(VecLen(key_vec) - 1)

\* a push into a slot that a pop had emptied, on a map that kept a slot
C2_Witness ==
  /\ op = "push"
  /\ prev_op = "pop"
  /\ VecLen(key_vec) >= 2
  /\ DOMAIN hashmap = 0..(VecLen(key_vec) - 1)

\* C3: after new and pushes (k0,v0) .. (kn-1,vn-1), keys not necessarily
\* distinct, into_iter and repeated next yield exactly these pairs in that
\* order, each once, and only then the absent result.
C3_OrderPreserved ==
  (phase = "iter" /\ hist = "push") =>
    /\ IsPrefix(yielded, pushlog)
    /\ op = "into_iter" => index = 0 /\ yielded = <<>>
    /\ op = "next" =>
         /\ index <= Len(pushlog) => ret = Some(pushlog[index])
         /\ index <= Len(pushlog) => yielded = SubSeq(pushlog, 1, index)
         /\ index > Len(pushlog) => ret = None
         /\ ret = None => yielded = pushlog

\* three pushes with a repeated key were iterated to the absent result
C3_Witness ==
  /\ phase = "iter"
  /\ hist = "push"
  /\ op = "next"
  /\ ret = None
  /\ Len(pushlog) = MaxLen
  /\ pushlog[1][1] = pushlog[2][1]
  /\ pushlog[1][2] # pushlog[2][2]
  /\ yielded = pushlog

\* C4: in any reachable state, push(k, v) immediately followed by pop()
\* returns (k, v) and leaves the length and what get returns for every slot
\* as they were before the push, also when k is already present.
C4_PushPopDuality ==
  [][(phase = "live" /\ op = "push" /\ op' = "pop") =>
       /\ ret' = Some(arg)
       /\ VecLen(key_vec') = VecLen(pre.key_vec)
       /\ \A i \in Slots : get(Self', i) = get(pre, i)]_vars

\* a pop right after the push of a key that an earlier slot already held
C4_Witness ==
  /\ op = "pop"
  /\ prev_op = "push"
  /\ IsSome(ret)
  /\ \E i \in 1..Len(key_vec) : key_vec[i] = Unwrap(ret)[1]
  /\ VecLen(key_vec) = VecLen(pre.key_vec) - 1

\* C5: with n >= 1 entries pop returns the pair stored at slot n-1, the
\* length becomes n-1 and slots 0..n-2 keep their keys and values; n pushes
\* followed by n pops return the pairs in reverse push order.
C5_PopLast ==
  /\ (op = "pop" /\ VecLen(pre.key_vec) >= 1) =>
       /\ IsSome(ret)
       /\ ret = get(pre, VecLen(pre.key_vec) - 1)
       /\ VecLen(key_vec) = VecLen(pre.key_vec) - 1
       /\ Len(entries) = VecLen(key_vec)
       /\ \A i \in 0..(VecLen(pre.key_vec) - 2) :
            IsSome(get(Self, i)) /\ get(Self, i) = get(pre, i)
  /\ hist = "pop" =>
       \A j \in 1..Len(poplog) : poplog[j] = Some(pushlog[Len(pushlog) - j + 1])

\* MaxLen pushes, the first two of one key, were all popped again
C5_Witness ==
  /\ hist = "pop"
  /\ op = "pop"
  /\ Len(pushlog) = MaxLen
  /\ Len(poplog) = Len(pushlog)
  /\ pushlog[1][1] = pushlog[2][1]
  /\ pushlog[1][2] # pushlog[2][2]
  /\ ret = Some(pushlog[1])
  /\ key_vec = <<>>

\* C6: pop never takes a key off key_vec while finding no hashmap entry at
\* that slot: it returns the absent result only on a map without entries and
\* never shortens key_vec without removing the entry of the same slot.
C6_PopNoFault ==
  /\ (phase = "live" /\ VecLen(key_vec) >= 1) => IsSome(pop(Self).ret)
  /\ op = "pop" =>
       /\ ret = None <=> VecLen(pre.key_vec) = 0
       /\ VecLen(key_vec) < VecLen(pre.key_vec) =>
            /\ VecLen(key_vec) = VecLen(pre.key_vec) - 1
            /\ VecLen(key_vec) \in DOMAIN pre.hashmap
            /\ DOMAIN hashmap = (DOMAIN pre.hashmap) \ {VecLen(key_vec)}

\* a second pop in a row took a key and its value and left some behind
C6_Witness ==
  /\ op = "pop"
  /\ prev_op = "pop"
  /\ IsSome(ret)
  /\ VecLen(key_vec) >= 1
  /\ VecLen(key_vec) \notin DOMAIN hashmap

\* C7: with n entries, get(i) returns the key and the value of the i-th
\* entry in insertion order for every i < n and not-found for every i >= n;
\* get_mut(i) succeeds and fails for exactly the same slots.
C7_SlotAddressing ==
  phase = "live" =>
    /\ VecLen(key_vec) = Len(entries)
    /\ \A i \in Slots :
         IF i < Len(entries)
           THEN /\ get(Self, i) = Some(entries[i + 1])
                /\ IsSome(get_mut(Self, i))
                /\ Deref(Self, Unwrap(get_mut(Self, i))) = entries[i + 1]
           ELSE /\ get(Self, i) = None
                /\ get_mut(Self, i) = None
    /\ op = "get" =>
         ret = IF arg < Len(entries) THEN Some(entries[arg + 1]) ELSE None
    /\ op = "get_mut" => (IsSome(ret) <=> arg[1] < Len(entries))

\* get found the third of three entries, the first two of one key
C7_Witness ==
  /\ op = "get"
  /\ arg = 2
  /\ Len(entries) = 3
  /\ entries[1][1] = entries[2][1]
  /\ entries[1][2] # entries[2][2]
  /\ ret = Some(entries[3])

\* C8: get_by_key(k) returns the value at the smallest slot whose key is k,
\* also when k is at several slots and after later occurrences are pushed
\* or popped, and not-found exactly when no slot holds k.
C8_FirstMatch ==
  phase = "live" =>
    /\ \A k \in Keys :
         IF AbsSlots(entries, k) = {}
           THEN get_by_key(Self, k) = None
           ELSE get_by_key(Self, k) = Some(entries[AbsFirst(entries, k) + 1][2])
    /\ op = "get_by_key" =>
         ret = IF AbsSlots(entries, arg) = {}
                 THEN None
                 ELSE Some(entries[AbsFirst(entries, arg) + 1][2])

\* get_by_key found a key that two slots hold with different values, after
\* a pop
C8_Witness ==
  /\ op = "get_by_key"
  /\ prev_op = "pop"
  /\ IsSome(ret)
  /\ \E i, j \in AbsSlots(entries, arg) :
       /\ i < j
       /\ entries[i + 1][2] # entries[j + 1][2]
       /\ ret = Some(entries[i + 1][2])

\* C9: pushing a key that is already present appends a second occurrence:
\* after push(k, v1) at slot i and a later push(k, v2) at slot j > i, get(i)
\* is (k, v1), get(j) is (k, v2), the length counts both, and consuming
\* iteration yields both at their own positions.
C9_DuplicatesKept ==
  /\ (phase = "live" /\ op = "push") =>
       /\ VecLen(key_vec) = VecLen(pre.key_vec) + 1
       /\ get(Self, VecLen(pre.key_vec)) = Some(arg)
       /\ \A i \in 0..(VecLen(pre.key_vec) - 1) :
            IsSome(get(Self, i)) /\ get(Self, i) = get(pre, i)
  /\ hist = "push" =>
       /\ VecLen(key_vec) = Len(pushlog)
       /\ \A i, j \in 1..Len(pushlog) :
            (i < j /\ pushlog[i][1] = pushlog[j][1]) =>
              /\ get(Self, i - 1) = Some(pushlog[i])
              /\ get(Self, j - 1) = Some(pushlog[j])
              /\ (phase = "iter" /\ op = "next" /\ index = i) =>
                   ret = Some(pushlog[i])
              /\ (phase = "iter" /\ op = "next" /\ index = j) =>
                   ret = Some(pushlog[j])
              /\ (phase = "iter" /\ op = "next" /\ ret = None) =>
                   yielded[i] = pushlog[i] /\ yielded[j] = pushlog[j]

\* one key was pushed twice with different values and next just yielded
\* the second occurrence
C9_Witness ==
  /\ hist = "push"
  /\ phase = "iter"
  /\ op = "next"
  /\ Len(pushlog) >= 2
  /\ index = 2
  /\ pushlog[1][1] = pushlog[2][1]
  /\ pushlog[1][2] # pushlog[2][2]
  /\ yielded = <<pushlog[1], pushlog[2]>>

\* C10: every error condition is reported as absence and changes nothing:
\* on a freshly constructed container pop(), get(0) and get_by_key(k) are
\* absent; pop on an empty container, get / get_mut at a slot >= length and
\* get_by_key / get_mut_by_key of a key held by no slot are absent and
\* leave the length and every slot's key and value as they were.
C10_AbsenceOnly ==
  /\ op \in EmptyConstructors =>
       /\ pop(Self).ret = None
       /\ get(Self, 0) = None
       /\ \A k \in Keys : get_by_key(Self, k) = None
  /\ (op = "pop" /\ VecLen(pre.key_vec) = 0) =>
       ret = None /\ Unchanged(Self, pre)
  /\ (op = "get" /\ arg >= VecLen(pre.key_vec)) =>
       ret = None /\ Unchanged(Self, pre)
  /\ (op = "get_mut" /\ arg[1] >= VecLen(pre.key_vec)) =>
       ret = None /\ Unchanged(Self, pre)
  /\ (op = "get_by_key" /\ \A i \in 1..Len(pre.key_vec) : pre.key_vec[i] # arg) =>
       ret = None /\ Unchanged(Self, pre)
  /\ (op = "get_mut_by_key"
        /\ \A i \in 1..Len(pre.key_vec) : pre.key_vec[i] # arg[1]) =>
       ret = None /\ Unchanged(Self, pre)

\* get_by_key did not find a key that no slot of a non-empty map holds
C10_Witness ==
  /\ op = "get_by_key"
  /\ ret = None
  /\ VecLen(key_vec) >= 1
  /\ \A i \in 1..Len(key_vec) : key_vec[i] # arg
  /\ Unchanged(Self, pre)

\* new, then the pairs of the list pushed one at a time in order
RECURSIVE PushAll(_, _)
PushAll(self, tuples) ==
  IF tuples = <<>> THEN self
  ELSE PushAll(push(self, Head(tuples)[1], Head(tuples)[2]), Tail(tuples))

\* what a consuming iteration returns up to its first absent result
RECURSIVE Drain(_, _)
Drain(it, acc) ==
  LET r == next(it)
  IN  IF IsSome(r.ret) THEN Drain(r.it, Append(acc, Unwrap(r.ret))) ELSE acc
IterAll(self) == Drain(into_iter(self), <<>>)

\* C11: for every list of pairs, the empty one and those with repeated keys
\* included, the map built by either From constructor is observably the map
\* got from new by pushing the pairs in order: same length, same get(i),
\* same get_by_key(k), same consuming iteration, and the same two fields,
\* of which the result of every further operation is a function.
C11_BulkEqualsPushes ==
  op \in {"from_slice", "from_vec"} =>
    LET pushed == PushAll(new, arg)
    IN  /\ VecLen(key_vec) = VecLen(pushed.key_vec)
        /\ VecLen(key_vec) = Len(arg)
        /\ \A i \in Slots : get(Self, i) = get(pushed, i)
        /\ \A k \in Keys : get_by_key(Self, k) = get_by_key(pushed, k)
        /\ IterAll(Self) = IterAll(pushed)
        /\ IterAll(Self) = arg
        /\ pop(Self) = pop(pushed)
        /\ Self = pushed

\* from_vec was given one key twice with different values
C11_Witness ==
  /\ op = "from_vec"
  /\ Len(arg) = MaxFromLen
  /\ arg[1][1] = arg[2][1]
  /\ arg[1][2] # arg[2][2]
  /\ Self = PushAll(new, arg)

\* the step is a method call on the live map
MethodStep == phase = "live" /\ phase' = "live" /\ prev_op' # "none"

\* the step neither pops slot i nor writes through a handle to slot i
KeepsSlot(i) ==
  /\ ~(op' = "pop" /\ i = Len(entries) - 1)
  /\ ~(op' = "get_mut" /\ arg'[1] = i)
  /\ ~(op' = "get_mut_by_key" /\ AbsSlots(entries, arg'[1]) # {}
         /\ AbsFirst(entries, arg'[1]) = i)

\* C12: for a slot i < length, a value written through the handle of
\* get_mut(i) is what a subsequent get(i) returns; it stays so until slot i
\* is popped (or written again), and the write leaves the length and the
\* keys and values of all other slots as they were.
C12_MutationVisible ==
  [][
      /\ (op' = "get_mut" /\ arg'[1] < VecLen(key_vec)) =>
          /\ IsSome(ret')
          /\ get(Self', arg'[1]) = Some(<<arg'[2], arg'[3]>>)
          /\ VecLen(key_vec') = VecLen(key_vec)
          /\ \A j \in Slots \ {arg'[1]} : get(Self', j) = get(Self, j)
      /\ (op = "get_mut" /\ IsSome(ret) /\ op' = "get" /\ arg' = arg[1]) =>
          ret' = Some(<<arg[2], arg[3]>>)
      /\ MethodStep =>
          \A i \in 0..(VecLen(key_vec) - 1) :
            KeepsSlot(i) => (IsSome(get(Self', i)) /\ get(Self', i) = get(Self, i))
    ]_vars

\* a new value was written to slot 0 of a map whose slot 1 holds the same
\* key with the old value
C12_Witness ==
  /\ op = "get_mut"
  /\ arg[1] = 0
  /\ IsSome(ret)
  /\ arg[2] = Unwrap(ret)[1]
  /\ arg[3] # Unwrap(ret)[2]
  /\ VecLen(key_vec) >= 2
  /\ get(Self, 0) = Some(<<arg[2], arg[3]>>)
  /\ get(Self, 1) = Some(Unwrap(ret))

\* the number of slots get(0), get(1), ... serves before its first not-found
RECURSIVE SlotCountFrom(_, _)
SlotCountFrom(self, i) ==
  IF IsSome(get(self, i)) THEN SlotCountFrom(self, i + 1) ELSE i
SlotCount(self) == SlotCountFrom(self, 0)

\* C13: after any sequence of operations, the number of pairs a consuming
\* iteration yields equals the number of slots that get(0), get(1), ...
\* serves up to the first not-found, and both equal the current length.
C13_CountsAgree ==
  /\ phase = "live" =>
       /\ Len(IterAll(Self)) = SlotCount(Self)
       /\ SlotCount(Self) = VecLen(key_vec)
       /\ VecLen(key_vec) = Len(entries)
  /\ (phase = "iter" /\ op = "next" /\ ret = None) =>
       /\ Len(yielded) = SlotCount(Self)
       /\ Len(yielded) = VecLen(key_vec)
       /\ Len(yielded) = Len(entries)

\* a map that saw more than pushes was iterated to the absent result and
\* yielded two pairs or more
C13_Witness ==
  /\ phase = "iter"
  /\ hist = "other"
  /\ op = "next"
  /\ ret = None
  /\ Len(yielded) >= 2
  /\ Len(yielded) = SlotCount(Self)

\* C14: the consuming iterator is finite and non-restartable: for a map of
\* n entries the first n calls of next yield the n pairs, every later call,
\* however many, returns the absent result, and no entry is yielded twice.
C14_NonRestartable ==
  /\ phase # "panicked"
  /\ phase = "iter" =>
       /\ Len(yielded) <= VecLen(key_vec)
       /\ \A j \in 1..Len(yielded) : Some(yielded[j]) = get(Self, j - 1)
       /\ (op = "next" /\ ret = None) => Len(yielded) = VecLen(key_vec)

\* C15: with n entries, push(k, v) always succeeds, makes the length n + 1
\* and get(n) return (k, v), and leaves the key and value of every slot
\* 0..n-1 as they were; when slot n was occupied and popped before, get(n)
\* returns the pushed value, never the popped one.
C15_PushAppends ==
  /\ phase = "live" =>
       \A k \in Keys, v \in Vals :
         LET s == push(Self, k, v)
             n == Len(entries)
         IN  /\ VecLen(s.key_vec) = n + 1
             /\ get(s, n) = Some(<<k, v>>)
             /\ get(s, n + 1) = None
             /\ \A i \in 0..(n - 1) : get(s, i) = Some(entries[i + 1])
  /\ op = "push" =>
       /\ Len(entries) = VecLen(pre.key_vec) + 1
       /\ entries[Len(entries)] = arg
       /\ get(Self, VecLen(pre.key_vec)) = Some(arg)
       /\ hashmap[VecLen(pre.key_vec)] = arg[2]
       /\ VecLen(pre.key_vec) \notin DOMAIN pre.hashmap

\* a push went into the slot that the pop before it had emptied, above a
\* slot that stayed
C15_Witness ==
  /\ op = "push"
  /\ prev_op = "pop"
  /\ VecLen(key_vec) >= 2
  /\ VecLen(key_vec) = VecLen(pre.key_vec) + 1
  /\ get(Self, VecLen(pre.key_vec)) = Some(arg)

\* C16: get_mut_by_key(k) looks up as get_by_key(k) does: it succeeds exactly
\* when get_by_key(k) does; a write through its handle changes the value at
\* the smallest slot holding k and nothing else, and is what get_by_key(k)
\* and get at that slot return afterwards; the values of later occurrences
\* of k, all keys and the length stay as they were.
C16_MutByKey ==
  /\ phase = "live" =>
       \A k \in Keys :
         /\ IsSome(get_mut_by_key(Self, k)) <=> IsSome(get_by_key(Self, k))
         /\ IsSome(get_mut_by_key(Self, k)) <=> AbsSlots(entries, k) # {}
         /\ IsSome(get_mut_by_key(Self, k)) =>
              Unwrap(get_mut_by_key(Self, k)).value_slot = AbsFirst(entries, k)
  /\ op = "get_mut_by_key" =>
       /\ IsSome(ret) <=> AbsSlots(entries, arg[1]) # {}
       /\ ret = get_by_key(pre, arg[1])
       /\ key_vec = pre.key_vec
       /\ VecLen(key_vec) = VecLen(pre.key_vec)
       /\ IsSome(ret) =>
            LET f == AbsFirst(entries, arg[1])
            IN  /\ get_by_key(Self, arg[1]) = Some(arg[2])
                /\ get(Self, f) = Some(<<arg[1], arg[2]>>)
                /\ \A j \in Slots \ {f} : get(Self, j) = get(pre, j)
       /\ ~IsSome(ret) => Self = pre

\* a new value was written through get_mut_by_key for a key that two slots
\* hold; the later slot kept its own, different value
C16_Witness ==
  /\ op = "get_mut_by_key"
  /\ IsSome(ret)
  /\ Unwrap(ret) # arg[2]
  /\ \E i, j \in AbsSlots(entries, arg[1]) :
       /\ i < j
       /\ get(Self, i) = Some(<<arg[1], arg[2]>>)
       /\ get(Self, j) = get(pre, j)
       /\ get(Self, j) # get(Self, i)

\* C17: overwriting the key of slot i with k' through the handle of
\* get_mut(i) keeps the two fields in step: get(i) is then (k', value of
\* slot i), the length, all values and all other keys are as before, the
\* keys of hashmap are still 0..length-1, get_by_key follows the updated key
\* sequence, and a later pop of slot i returns (k', value).
C17_KeyOverwrite ==
  /\ (op = "get_mut" /\ IsSome(ret) /\ arg[2] # Unwrap(ret)[1]) =>
       /\ get(Self, arg[1]) = Some(<<arg[2], arg[3]>>)
       /\ arg[3] = Unwrap(ret)[2] => hashmap = pre.hashmap
       /\ key_vec = [pre.key_vec EXCEPT ![arg[1] + 1] = arg[2]]
       /\ VecLen(key_vec) = VecLen(pre.key_vec)
       /\ \A j \in Slots \ {arg[1]} : get(Self, j) = get(pre, j)
       /\ DOMAIN hashmap = 0..(VecLen(key_vec) - 1)
       /\ get_by_key(Self, Unwrap(ret)[1]) =
            IF AbsSlots(entries, Unwrap(ret)[1]) = {}
              THEN None
              ELSE Some(entries[AbsFirst(entries, Unwrap(ret)[1]) + 1][2])
       /\ get_by_key(Self, arg[2]) =
            Some(entries[AbsFirst(entries, arg[2]) + 1][2])
       /\ AbsFirst(entries, arg[2]) <= arg[1]
       /\ arg[1] = VecLen(key_vec) - 1 => pop(Self).ret = Some(<<arg[2], arg[3]>>)
  /\ (phase = "live" /\ entries # <<>>) =>
       pop(Self).ret = Some(entries[Len(entries)])

\* the key of the last of two slots or more was overwritten with another
\* key, the value left alone, and a pop would return the new key with it
C17_Witness ==
  /\ op = "get_mut"
  /\ IsSome(ret)
  /\ arg[2] # Unwrap(ret)[1]
  /\ arg[3] = Unwrap(ret)[2]
  /\ VecLen(key_vec) >= 2
  /\ arg[1] = VecLen(key_vec) - 1
  /\ get_by_key(Self, Unwrap(ret)[1]) = None
  /\ pop(Self).ret = Some(<<arg[2], arg[3]>>)

====
